---- MODULE Spec2Model ----
(***************************************************************************)
(* Model of the ticket booking back end (Express + Prisma on PostgreSQL).  *)
(*                                                                         *)
(* The store is the committed content of the PostgreSQL tables.  A booking *)
(* (POST /api/transactions) runs its statements inside one Prisma          *)
(* interactive transaction, db.$transaction(async (prisma) => ...), for    *)
(* which the code asks no isolation level: PostgreSQL's default, READ      *)
(* COMMITTED.  Each statement of it reads the committed rows; its writes   *)
(* stay pending, under row locks, until the commit; an UPDATE of a row     *)
(* another open transaction has written waits for that transaction to      *)
(* end, and is then applied to the row as committed.  A statement issued   *)
(* through the global client db (addPointsToUser, cleanupExpiredPoints)    *)
(* is its own transaction: it commits at once, and waits for row locks     *)
(* like any other.  Every await of a handler is one step of its process.   *)
(***************************************************************************)
EXTENDS Integers, Sequences, FiniteSets, TLC

VARIABLES
    now,                \* the clock (new Date()), in months
    events,             \* table events:  id -> row
    tickets,            \* table tickets: id -> row
    users,              \* table users:   id -> row
    coupons,            \* table discount_coupons: id -> row
    points,             \* table points: sequence of rows, in creation order
    transactions,       \* table transactions: the set of its rows
    transactionItems,   \* table transaction_items: the set of its rows
    transactionCoupons, \* table transaction_coupons: the set of its rows
    bk,                 \* the booking requests being served: process -> state
    started,            \* number of booking requests received so far
    cl,                 \* the run of cleanupExpiredPoints
    cr,                 \* the referral credit of a registration
    au,                 \* the request served by routes/auth.ts
    og                  \* the request served by routes/tickets.ts, events.ts

vars == <<now, events, tickets, users, coupons, points, transactions,
          transactionItems, transactionCoupons, bk, started, cl, cr, au,
          og>>

store == <<events, tickets, users, coupons, points, transactions,
           transactionItems, transactionCoupons>>

(***************************************************************************)
(* Bounds of the model.                                                    *)
(***************************************************************************)
MaxBookings == 2
MaxTime == 1
MaxCredits == 1

(***************************************************************************)
(* Program constants.                                                      *)
(***************************************************************************)
PointsPerAmount == 1000
ExpiryMonths == 3
ReferralBonus == 10000
ReferralPercent == 10

Procs == {"p1", "p2"}
UserIds == {"u1", "u2"}
EventIds == {"e1"}
TicketIds == {"t1", "t2"}
CouponIds == {"c1"}

NoCode == ""
NoUser == "none"

(***************************************************************************)
(* Helpers.                                                                *)
(***************************************************************************)
Min(a, b) == IF a <= b THEN a ELSE b

(***************************************************************************)
(* Pure computations of the handlers.                                      *)
(***************************************************************************)
\* (a faulty credit, rounded to the nearest point: C16 must tell it from
\* calculatePoints)
calculatePointsRounded(amount) == (amount + 500) \div PointsPerAmount

\* utils.ts calculatePoints: Math.floor(amount / 1000)
calculatePoints(amount) == amount \div PointsPerAmount

\* (a faulty discount, rounded up: C13 must tell it from DiscountAmount)
DiscountAmountCeil(totalAmount, discountPercent) ==
    (totalAmount * discountPercent + 99) \div 100

\* Math.floor((totalAmount * coupon.discountPercent) / 100)
DiscountAmount(totalAmount, discountPercent) ==
    (totalAmount * discountPercent) \div 100

\* (a faulty settlement, without the cap by the payable amount: C10 must tell
\* it from PointsToUse)
PointsToUseUncapped(requested, pointsBalance, payable) ==
    Min(requested, pointsBalance)

\* Math.min(validatedData.pointsToUse, user.pointsBalance, totalAmount - discountAmount)
PointsToUse(requested, pointsBalance, payable) ==
    Min(requested, Min(pointsBalance, payable))

\* finalAmount = totalAmount - discountAmount - pointsDiscount
FinalAmount(totalAmount, discountAmount, pointsDiscount) ==
    totalAmount - discountAmount - pointsDiscount

\* validatedData.items.reduce((sum, item) => sum + item.quantity, 0)
RECURSIVE TotalTickets(_)
TotalTickets(items) ==
    IF items = <<>> THEN 0
    ELSE Head(items).quantity + TotalTickets(Tail(items))

\* (a faulty loop, which adds the unit price of a line item to totalAmount
\* whatever its quantity: C28 must tell it from ValidateItems)
RECURSIVE ValidateItemsUnit(_, _, _)
ValidateItemsUnit(items, evTickets, acc) ==
    IF items = <<>> THEN acc
    ELSE LET item == Head(items) IN
         IF item.ticketId \notin DOMAIN evTickets
         THEN [acc EXCEPT !.error = "TicketNotFound"]
         ELSE LET ticket == evTickets[item.ticketId] IN
              IF ticket.sold + item.quantity > ticket.quantity
              THEN [acc EXCEPT !.error = "CapacityExceeded"]
              ELSE ValidateItemsUnit(Tail(items), evTickets,
                     [acc EXCEPT
                        !.totalAmount = @ + ticket.price,
                        !.ticketUpdates = Append(@,
                            [id |-> item.ticketId,
                             quantity |-> item.quantity,
                             price |-> ticket.price])])

\* The loop over validatedData.items: the first line item whose ticket is not
\* one of the event's, or does not fit its ticket's capacity, throws; the
\* others add to totalAmount and to ticketUpdates.  evTickets are the
\* tickets rows read with the event.
RECURSIVE ValidateItems(_, _, _)
ValidateItems(items, evTickets, acc) ==
    IF items = <<>> THEN acc
    ELSE LET item == Head(items) IN
         IF item.ticketId \notin DOMAIN evTickets
         THEN [acc EXCEPT !.error = "TicketNotFound"]
         ELSE LET ticket == evTickets[item.ticketId] IN
              IF ticket.sold + item.quantity > ticket.quantity
              THEN [acc EXCEPT !.error = "CapacityExceeded"]
              ELSE ValidateItems(Tail(items), evTickets,
                     [acc EXCEPT
                        !.totalAmount = @ + ticket.price * item.quantity,
                        !.ticketUpdates = Append(@,
                            [id |-> item.ticketId,
                             quantity |-> item.quantity,
                             price |-> ticket.price])])

\* event.tickets of include: { tickets: true }
TicketsOf(eventId) ==
    [t \in {x \in DOMAIN tickets : tickets[x].eventId = eventId} |-> tickets[t]]

\* findFirst({ where: { code, isUsed: false, expiresAt: { gte: new Date() } } })
CouponsByCode(code) ==
    {c \in DOMAIN coupons : /\ coupons[c].code = code
                       /\ ~coupons[c].isUsed
                       /\ coupons[c].expiresAt >= now}

\* findFirst({ where: { userId, isUsed: false, expiresAt: { gte: new Date() } },
\*             orderBy: { discountPercent: "desc" } }): a coupon of the highest
\* percentage; which one of several of that percentage is the store's choice.
CouponsOfUser(userId) ==
    LET live == {c \in DOMAIN coupons : /\ coupons[c].userId = userId
                                   /\ ~coupons[c].isUsed
                                   /\ coupons[c].expiresAt >= now}
    IN {c \in live : \A d \in live :
                        coupons[d].discountPercent <= coupons[c].discountPercent}

\* point.findMany({ where: { earnedById, isUsed: false, expiresAt: { gte: new Date() } },
\*                  orderBy: { createdAt: "asc" } }): the ids, oldest first
RECURSIVE LivePointsFrom(_, _)
LivePointsFrom(userId, i) ==
    IF i > Len(points) THEN <<>>
    ELSE IF /\ points[i].earnedById = userId
            /\ ~points[i].isUsed
            /\ points[i].expiresAt >= now
         THEN <<i>> \o LivePointsFrom(userId, i + 1)
         ELSE LivePointsFrom(userId, i + 1)

\* (a faulty loop, which ends at the first grant that does not fit: C23 must
\* tell it from NextFit)
NextFitPrefix(userPoints, j, remaining) ==
    IF j > Len(userPoints) \/ remaining <= 0 THEN 0
    ELSE IF points[userPoints[j]].amount <= remaining THEN j
         ELSE 0

\* The loop over userPoints from position j: the next grant that is updated,
\* i.e. the first one whose amount fits the remaining requirement; 0 when the
\* loop ends (list exhausted, or remainingPointsToUse <= 0).
RECURSIVE NextFit(_, _, _)
NextFit(userPoints, j, remaining) ==
    IF j > Len(userPoints) \/ remaining <= 0 THEN 0
    ELSE IF points[userPoints[j]].amount <= remaining THEN j
         ELSE NextFit(userPoints, j + 1, remaining)

\* (a faulty query, without isUsed: false: C26 must tell it from
\* ExpiredPointsFrom)
RECURSIVE ExpiredPointsAnyFrom(_)
ExpiredPointsAnyFrom(i) ==
    IF i > Len(points) THEN <<>>
    ELSE IF points[i].expiresAt < now
         THEN <<i>> \o ExpiredPointsAnyFrom(i + 1)
         ELSE ExpiredPointsAnyFrom(i + 1)

\* point.findMany({ where: { expiresAt: { lt: new Date() }, isUsed: false } })
RECURSIVE ExpiredPointsFrom(_)
ExpiredPointsFrom(i) ==
    IF i > Len(points) THEN <<>>
    ELSE IF points[i].expiresAt < now /\ ~points[i].isUsed
         THEN <<i>> \o ExpiredPointsFrom(i + 1)
         ELSE ExpiredPointsFrom(i + 1)

(***************************************************************************)
(* The state of one booking request (POST /api/transactions).              *)
(***************************************************************************)
NoLocks == [tickets |-> {}, events |-> {}, coupons |-> {}, users |-> {},
            points |-> {}]

NoSnapshot == <<>>

\* the values the atomicity claims compare a failed attempt against
Snapshot ==
    [sold |-> [t \in TicketIds |-> tickets[t].sold],
     bookedSeats |-> [e \in DOMAIN events |-> events[e].bookedSeats],
     pointsBalance |-> [u \in DOMAIN users |-> users[u].pointsBalance],
     isUsed |-> [c \in DOMAIN coupons |-> coupons[c].isUsed]]

Idle ==
    [pc |-> "idle", id |-> 0, outcome |-> "none", pre |-> NoSnapshot,
     \* the request: req.user.id and validatedData
     user |-> NoUser, eventId |-> "", items |-> <<>>, couponCode |-> NoCode,
     reqPoints |-> 0,
     \* the locals of the transaction callback (a local that is not read
     \* again is reset)
     totalAmount |-> 0, ticketUpdates |-> <<>>, totalTickets |-> 0,
     discountAmount |-> 0, usedCoupons |-> <<>>, pointsToUse |-> 0,
     finalAmount |-> 0, i |-> 0, userPoints |-> <<>>, remaining |-> 0,
     \* the database transaction: open or not, its row locks, its pending
     \* updates and inserts
     open |-> FALSE, locks |-> NoLocks,
     wSold |-> [t \in TicketIds |-> 0], wSeats |-> 0, wCoupons |-> {},
     wBalance |-> 0, wPoints |-> {},
     insTransaction |-> {}, insItems |-> {}, insCoupons |-> {}]

Active(p) == bk[p].pc \notin {"idle", "done", "failed"}

\* no request is being served
Quiet == \A p \in Procs : ~Active(p)

\* the processes in their order
Before(q, p) == q = "p1" /\ p = "p2"

\* a row lock held by an open transaction of another request
LockedByOther(p, table, id) ==
    \E q \in Procs \ {p} : bk[q].open /\ id \in bk[q].locks[table]

\* a row lock held by any open transaction (seen from the global client db)
LockedByAny(table, id) ==
    \E q \in Procs : bk[q].open /\ id \in bk[q].locks[table]

\* the request ended: the response is sent, only the outcome is kept
Ended(b, pc, outcome) ==
    [Idle EXCEPT !.pc = pc, !.id = b.id, !.outcome = outcome]

\* the callback threw: Prisma rolls the transaction back, the handler answers 400
Throw(p, outcome) ==
    bk' = [bk EXCEPT ![p] = Ended(bk[p], "failed", outcome)]

(***************************************************************************)
(* POST /api/transactions, one action per awaited statement.               *)
(***************************************************************************)
\* the request arrives and db.$transaction opens the database transaction
\* (the request is served by the first free process)
Begin(p, r, pre) ==
    /\ ~Active(p)
    /\ \A q \in Procs : Before(q, p) => Active(q)
    /\ started < MaxBookings
    /\ started' = started + 1
    /\ bk' = [bk EXCEPT ![p] =
                [Idle EXCEPT !.pc = "findEvent", !.id = started + 1,
                             !.pre = pre,
                             !.user = r.user, !.eventId = r.eventId,
                             !.items = r.items, !.couponCode = r.couponCode,
                             !.reqPoints = r.pointsToUse, !.open = TRUE]]
    /\ UNCHANGED <<now, store, cl, cr, au, og>>

\* (a faulty handler, without the check of event.status: C17 must tell it
\* from FindEvent)
FindEventAnyStatus(p) ==
    /\ bk[p].pc = "findEvent"
    /\ LET b == bk[p]
           v == ValidateItems(b.items, TicketsOf(b.eventId),
                   [error |-> "none", totalAmount |-> 0, ticketUpdates |-> <<>>])
           totalTickets == TotalTickets(b.items)
       IN IF b.eventId \notin DOMAIN events
          THEN Throw(p, "EventNotFound")
          ELSE IF v.error # "none"
          THEN Throw(p, v.error)
          ELSE IF events[b.eventId].bookedSeats + totalTickets
                     > events[b.eventId].availableSeats
          THEN Throw(p, "NoSeats")
          ELSE bk' = [bk EXCEPT ![p] =
                  [b EXCEPT !.pc = "findCoupon",
                            !.totalAmount = v.totalAmount,
                            !.ticketUpdates = v.ticketUpdates,
                            !.totalTickets = totalTickets]]
    /\ UNCHANGED <<now, store, started, cl, cr, au, og>>

\* prisma.event.findUnique({ include: { tickets: true } }) and the checks on
\* what it returned
FindEvent(p) ==
    /\ bk[p].pc = "findEvent"
    /\ LET b == bk[p]
           v == ValidateItems(b.items, TicketsOf(b.eventId),
                   [error |-> "none", totalAmount |-> 0, ticketUpdates |-> <<>>])
           totalTickets == TotalTickets(b.items)
       IN IF b.eventId \notin DOMAIN events
          THEN Throw(p, "EventNotFound")
          ELSE IF events[b.eventId].status # "PUBLISHED"
          THEN Throw(p, "EventNotBookable")
          ELSE IF v.error # "none"
          THEN Throw(p, v.error)
          ELSE IF events[b.eventId].bookedSeats + totalTickets
                     > events[b.eventId].availableSeats
          THEN Throw(p, "NoSeats")
          ELSE bk' = [bk EXCEPT ![p] =
                  [b EXCEPT !.pc = "findCoupon",
                            !.totalAmount = v.totalAmount,
                            !.ticketUpdates = v.ticketUpdates,
                            !.totalTickets = totalTickets]]
    /\ UNCHANGED <<now, store, started, cl, cr, au, og>>

\* prisma.discountCoupon.findFirst, by the code given or else the user's best
FindCoupon(p) ==
    /\ bk[p].pc = "findCoupon"
    /\ LET b == bk[p]
           found == IF b.couponCode # NoCode THEN CouponsByCode(b.couponCode)
                    ELSE CouponsOfUser(b.user)
       IN IF found = {}
          THEN bk' = [bk EXCEPT ![p] =
                  [b EXCEPT !.pc = "findUser", !.couponCode = NoCode]]
          ELSE \E c \in found :
                 bk' = [bk EXCEPT ![p] =
                    [b EXCEPT !.pc = "findUser", !.couponCode = NoCode,
                              !.discountAmount =
                                 DiscountAmount(b.totalAmount,
                                                coupons[c].discountPercent),
                              !.usedCoupons = <<c>>]]
    /\ UNCHANGED <<now, store, started, cl, cr, au, og>>

\* where the callback goes after the line items, the event, the coupons, the
\* points: the next statement it awaits
AfterPoints(b) ==
    IF calculatePoints(b.finalAmount) > 0 THEN "awardCreate" ELSE "commit"

AfterCoupons(b) ==
    IF b.pointsToUse > 0 THEN "updateUser" ELSE AfterPoints(b)

AfterEvent(b) ==
    IF b.usedCoupons # <<>> THEN "updateCoupon" ELSE AfterCoupons(b)

\* prisma.user.findUnique, then pointsToUse and finalAmount
FindUser(p) ==
    /\ bk[p].pc = "findUser"
    /\ LET b == bk[p] IN
       IF b.user \notin DOMAIN users
       THEN Throw(p, "UserNotFound")
       ELSE LET pointsToUse == PointsToUse(b.reqPoints,
                                   users[b.user].pointsBalance,
                                   b.totalAmount - b.discountAmount)
                finalAmount == FinalAmount(b.totalAmount, b.discountAmount,
                                           pointsToUse)
            IN bk' = [bk EXCEPT ![p] =
                  [b EXCEPT !.pc = "createTransaction",
                            !.reqPoints = 0,
                            !.pointsToUse = pointsToUse,
                            !.finalAmount = finalAmount]]
    /\ UNCHANGED <<now, store, started, cl, cr, au, og>>

\* prisma.transaction.create (a pending insert); the insert fails when the
\* event or the user it references is no longer there
CreateTransaction(p) ==
    /\ bk[p].pc = "createTransaction"
    /\ LET b == bk[p] IN
       IF b.eventId \notin DOMAIN events \/ b.user \notin DOMAIN users
       THEN Throw(p, "ForeignKey")
       ELSE bk' = [bk EXCEPT ![p] =
               [b EXCEPT !.pc = IF b.items = <<>> THEN "updateEvent"
                                ELSE "createItem",
                         !.i = 1,
                         !.insTransaction =
                            {[id |-> b.id, userId |-> b.user,
                               eventId |-> b.eventId,
                               totalAmount |-> b.totalAmount,
                               discountAmount |-> b.discountAmount,
                               finalAmount |-> b.finalAmount,
                               pointsUsed |-> b.pointsToUse,
                               status |-> "COMPLETED"]}]]
    /\ UNCHANGED <<now, store, started, cl, cr, au, og>>

\* one turn of the loop over the line items, first statement:
\* prisma.transactionItem.create (a pending insert); the insert fails when
\* the ticket it references is no longer there
CreateItem(p) ==
    /\ bk[p].pc = "createItem"
    /\ LET b == bk[p]
           item == b.items[b.i]
           ticketUpdate == b.ticketUpdates[b.i]
       IN IF item.ticketId \notin DOMAIN tickets
          THEN Throw(p, "ForeignKey")
          ELSE bk' = [bk EXCEPT ![p] =
                  [b EXCEPT !.pc = "updateTicket",
                            !.insItems = @ \cup {
                               [transactionId |-> b.id, line |-> b.i,
                                ticketId |-> item.ticketId,
                                quantity |-> item.quantity,
                                unitPrice |-> ticketUpdate.price,
                                totalPrice |->
                                   ticketUpdate.price * item.quantity]}]]
    /\ UNCHANGED <<now, store, started, cl, cr, au, og>>

\* one turn of the loop over the line items, second statement:
\* prisma.ticket.update({ data: { sold: { increment: item.quantity } } })
UpdateTicket(p) ==
    /\ bk[p].pc = "updateTicket"
    /\ LET b == bk[p]
           item == b.items[b.i]
       IN /\ ~LockedByOther(p, "tickets", item.ticketId)
          /\ bk' = [bk EXCEPT ![p] =
                [b EXCEPT !.pc = IF b.i < Len(b.items) THEN "createItem"
                                 ELSE "updateEvent",
                          !.i = IF b.i < Len(b.items) THEN @ + 1 ELSE 0,
                          !.items = IF b.i < Len(b.items) THEN @ ELSE <<>>,
                          !.ticketUpdates =
                             IF b.i < Len(b.items) THEN @ ELSE <<>>,
                          !.locks.tickets = @ \cup {item.ticketId},
                          !.wSold[item.ticketId] = @ + item.quantity]]
    /\ UNCHANGED <<now, store, started, cl, cr, au, og>>

\* (a faulty update, which counts one seat per booking: C29 must tell it
\* from UpdateEvent)
UpdateEventByOne(p) ==
    /\ bk[p].pc = "updateEvent"
    /\ LET b == bk[p] IN
       /\ ~LockedByOther(p, "events", b.eventId)
       /\ bk' = [bk EXCEPT ![p] =
             [b EXCEPT !.pc = AfterEvent(b),
                       !.locks.events = @ \cup {b.eventId},
                       !.wSeats = @ + 1]]
    /\ UNCHANGED <<now, store, started, cl, cr, au, og>>

\* prisma.event.update({ data: { bookedSeats: { increment: totalTickets } } })
UpdateEvent(p) ==
    /\ bk[p].pc = "updateEvent"
    /\ LET b == bk[p] IN
       /\ ~LockedByOther(p, "events", b.eventId)
       /\ bk' = [bk EXCEPT ![p] =
             [b EXCEPT !.pc = AfterEvent(b),
                       !.locks.events = @ \cup {b.eventId},
                       !.wSeats = @ + b.totalTickets]]
    /\ UNCHANGED <<now, store, started, cl, cr, au, og>>

\* the loop over usedCoupons (one coupon at most), first statement:
\* prisma.discountCoupon.update({ where: { id }, data: { isUsed: true } })
UpdateCoupon(p) ==
    /\ bk[p].pc = "updateCoupon"
    /\ LET b == bk[p]
           couponId == b.usedCoupons[1]
       IN /\ ~LockedByOther(p, "coupons", couponId)
          /\ bk' = [bk EXCEPT ![p] =
                [b EXCEPT !.pc = "createTransactionCoupon",
                          !.locks.coupons = @ \cup {couponId},
                          !.wCoupons = @ \cup {couponId}]]
    /\ UNCHANGED <<now, store, started, cl, cr, au, og>>

\* the loop over usedCoupons, second statement:
\* prisma.transactionCoupon.create (a pending insert)
CreateTransactionCoupon(p) ==
    /\ bk[p].pc = "createTransactionCoupon"
    /\ LET b == bk[p]
           couponId == b.usedCoupons[1]
       IN bk' = [bk EXCEPT ![p] =
             [b EXCEPT !.pc = AfterCoupons(b),
                       !.insCoupons = @ \cup {
                          [transactionId |-> b.id,
                           discountCouponId |-> couponId]}]]
    /\ UNCHANGED <<now, store, started, cl, cr, au, og>>

\* prisma.user.update({ data: { pointsBalance: { decrement: pointsToUse } } })
UpdateUser(p) ==
    /\ bk[p].pc = "updateUser"
    /\ LET b == bk[p] IN
       /\ ~LockedByOther(p, "users", b.user)
       /\ bk' = [bk EXCEPT ![p] =
             [b EXCEPT !.pc = "findPoints",
                       !.locks.users = @ \cup {b.user},
                       !.wBalance = @ - b.pointsToUse]]
    /\ UNCHANGED <<now, store, started, cl, cr, au, og>>

\* prisma.point.findMany of the user's live grants, and the loop up to its
\* first update
FindPoints(p) ==
    /\ bk[p].pc = "findPoints"
    /\ LET b == bk[p]
           userPoints == LivePointsFrom(b.user, 1)
           j == NextFit(userPoints, 1, b.pointsToUse)
       IN bk' = [bk EXCEPT ![p] =
             [b EXCEPT !.pc = IF j = 0 THEN AfterPoints(b) ELSE "updatePoint",
                       !.userPoints = IF j = 0 THEN <<>> ELSE userPoints,
                       !.remaining = IF j = 0 THEN 0 ELSE b.pointsToUse,
                       !.i = j]]
    /\ UNCHANGED <<now, store, started, cl, cr, au, og>>

\* prisma.point.update({ data: { isUsed: true, usedById } }) of grant
\* userPoints[i], and the loop up to its next update
UpdatePoint(p) ==
    /\ bk[p].pc = "updatePoint"
    /\ LET b == bk[p]
           point == b.userPoints[b.i]
           remaining == b.remaining - points[point].amount
           j == NextFit(b.userPoints, b.i + 1, remaining)
       IN /\ ~LockedByOther(p, "points", point)
          /\ bk' = [bk EXCEPT ![p] =
                [b EXCEPT !.pc = IF j = 0 THEN AfterPoints(b) ELSE "updatePoint",
                          !.locks.points = @ \cup {point},
                          !.wPoints = @ \cup {point},
                          !.userPoints = IF j = 0 THEN <<>> ELSE @,
                          !.remaining = IF j = 0 THEN 0 ELSE remaining,
                          !.i = j]]
    /\ UNCHANGED <<now, store, started, cl, cr, au, og>>

\* utils.ts addPointsToUser, first statement: db.point.create, through the
\* global client, so outside the booking's transaction: committed at once
NewGrant(userId, amount, description, attempt) ==
    [earnedById |-> userId, usedById |-> NoUser, amount |-> amount,
     expiresAt |-> now + ExpiryMonths, isUsed |-> FALSE,
     description |-> description, attempt |-> attempt]

AwardCreate(p) ==
    /\ bk[p].pc = "awardCreate"
    /\ LET b == bk[p] IN
       /\ points' = Append(points,
             NewGrant(b.user, calculatePoints(b.finalAmount), "Purchase", b.id))
       /\ bk' = [bk EXCEPT ![p] = [b EXCEPT !.pc = "awardUpdate"]]
    /\ UNCHANGED <<now, events, tickets, users, coupons, transactions,
                   transactionItems, transactionCoupons, started, cl, cr, au,
                   og>>

\* utils.ts addPointsToUser, second statement: db.user.update, increment,
\* through the global client: it waits for the lock any open transaction,
\* the booking's own included, holds on the user's row
AwardUpdate(p) ==
    /\ bk[p].pc = "awardUpdate"
    /\ LET b == bk[p] IN
       /\ ~LockedByAny("users", b.user)
       /\ users' = [users EXCEPT ![b.user].pointsBalance =
                       @ + calculatePoints(b.finalAmount)]
       /\ bk' = [bk EXCEPT ![p] = [b EXCEPT !.pc = "commit"]]
    /\ UNCHANGED <<now, events, tickets, coupons, points, transactions,
                   transactionItems, transactionCoupons, started, cl, cr, au,
                   og>>

\* the callback returns: Prisma commits the transaction, its pending updates
\* and inserts become the committed rows, and the handler goes on to read
\* the transaction back; a transaction that was closed meanwhile cannot
\* commit, the handler answers 400
Commit(p) ==
    /\ bk[p].pc = "commit"
    /\ LET b == bk[p] IN
       IF ~b.open
       THEN /\ Throw(p, "TransactionClosed")
            /\ UNCHANGED store
       ELSE /\ tickets' = [t \in DOMAIN tickets |->
                             IF t \in b.locks.tickets
                             THEN [tickets[t] EXCEPT !.sold = @ + b.wSold[t]]
                             ELSE tickets[t]]
            /\ events' = [e \in DOMAIN events |->
                            IF e \in b.locks.events
                            THEN [events[e] EXCEPT !.bookedSeats = @ + b.wSeats]
                            ELSE events[e]]
            /\ coupons' = [c \in DOMAIN coupons |->
                             IF c \in b.wCoupons
                             THEN [coupons[c] EXCEPT !.isUsed = TRUE]
                             ELSE coupons[c]]
            /\ users' = [u \in DOMAIN users |->
                           IF u = b.user
                           THEN [users[u] EXCEPT !.pointsBalance = @ + b.wBalance]
                           ELSE users[u]]
            /\ points' = [k \in 1..Len(points) |->
                            IF k \in b.wPoints
                            THEN [points[k] EXCEPT !.isUsed = TRUE,
                                                   !.usedById = b.user]
                            ELSE points[k]]
            /\ transactions' = transactions \cup b.insTransaction
            /\ transactionItems' = transactionItems \cup b.insItems
            /\ transactionCoupons' = transactionCoupons \cup b.insCoupons
            /\ bk' = [bk EXCEPT ![p] = [Idle EXCEPT !.pc = "readBack",
                                                      !.id = b.id]]
    /\ UNCHANGED <<now, started, cl, cr, au, og>>

\* db.transaction.findUnique({ where: { id: result.id }, include }) on the
\* global client, then res.status(201)
ReadBack(p) ==
    /\ bk[p].pc = "readBack"
    /\ bk' = [bk EXCEPT ![p] = Ended(bk[p], "done", "Persisted")]
    /\ UNCHANGED <<now, store, started, cl, cr, au, og>>

\* The database transaction ends without a commit while the callback runs.
\* Its pending writes are dropped and its locks released.  The next statement
\* on the transaction client throws; statements on the global client
\* (addPointsToUser) still run.
Abort(p) ==
    /\ Active(p)
    /\ bk[p].open
    /\ LET b == bk[p] IN
       IF b.pc \in {"awardCreate", "awardUpdate", "commit"}
       THEN bk' = [bk EXCEPT ![p] =
               [b EXCEPT !.open = FALSE, !.locks = NoLocks,
                         !.wSold = Idle.wSold, !.wSeats = 0, !.wCoupons = {},
                         !.wBalance = 0, !.wPoints = {},
                         !.insTransaction = {}, !.insItems = {},
                         !.insCoupons = {}]]
       ELSE Throw(p, "TransactionAborted")
    /\ UNCHANGED <<now, store, started, cl, cr, au, og>>

\* the statement the callback awaits waits for a row lock
Blocked(p) ==
    LET b == bk[p] IN
    \/ b.pc = "updateTicket" /\ LockedByOther(p, "tickets", b.items[b.i].ticketId)
    \/ b.pc = "updateEvent" /\ LockedByOther(p, "events", b.eventId)
    \/ b.pc = "updateCoupon" /\ LockedByOther(p, "coupons", b.usedCoupons[1])
    \/ b.pc = "updateUser" /\ LockedByOther(p, "users", b.user)
    \/ b.pc = "updatePoint" /\ LockedByOther(p, "points", b.userPoints[b.i])
    \/ b.pc = "awardUpdate" /\ LockedByAny("users", b.user)

\* the interactive-transaction timeout (5 s by default) expires, or PostgreSQL
\* detects a deadlock, while the callback waits for a lock
Timeout(p) ==
    /\ Blocked(p)
    /\ Abort(p)

(***************************************************************************)
(* utils.ts cleanupExpiredPoints, one action per awaited statement.        *)
(***************************************************************************)
CleanupIdle == [pc |-> "idle", expiredPoints |-> <<>>, i |-> 0]

\* db.point.findMany({ where: { expiresAt: { lt: new Date() }, isUsed: false } })
CleanupFind ==
    /\ cl.pc = "idle"
    /\ LET expiredPoints == ExpiredPointsFrom(1) IN
       cl' = [pc |-> IF expiredPoints = <<>> THEN "updateMany" ELSE "decrement",
              expiredPoints |-> expiredPoints, i |-> 1]
    /\ UNCHANGED <<now, store, bk, started, cr, au, og>>

\* the loop body for expiredPoints[i]: db.user.update, decrement by point.amount
CleanupDecrement ==
    /\ cl.pc = "decrement"
    /\ LET point == points[cl.expiredPoints[cl.i]] IN
       IF point.earnedById # NoUser
       THEN /\ ~LockedByAny("users", point.earnedById)
            /\ users' = [users EXCEPT ![point.earnedById].pointsBalance =
                            @ - point.amount]
       ELSE UNCHANGED users
    /\ cl' = [cl EXCEPT !.pc = IF cl.i < Len(cl.expiredPoints) THEN "decrement"
                                ELSE "updateMany",
                        !.i = @ + 1]
    /\ UNCHANGED <<now, events, tickets, coupons, points, transactions,
                   transactionItems, transactionCoupons, bk, started, cr, au,
                   og>>

\* db.point.updateMany({ where: { expiresAt: { lt: new Date() }, isUsed: false },
\*                       data: { isUsed: true } }): the rows are those that match
\* when it runs; it waits for the open transactions that hold one of them
CleanupUpdateMany ==
    /\ cl.pc = "updateMany"
    /\ LET match == {k \in 1..Len(points) :
                        points[k].expiresAt < now /\ ~points[k].isUsed}
       IN /\ \A k \in match : ~LockedByAny("points", k)
          /\ points' = [k \in 1..Len(points) |->
                          IF k \in match THEN [points[k] EXCEPT !.isUsed = TRUE]
                          ELSE points[k]]
    /\ cl' = CleanupIdle
    /\ UNCHANGED <<now, events, tickets, users, coupons, transactions,
                   transactionItems, transactionCoupons, bk, started, cr, au,
                   og>>

(***************************************************************************)
(* routes/auth.ts POST /register, the referral reward of the referrer:     *)
(* addPointsToUser(referredBy, 10000, ...).                                *)
(***************************************************************************)
CreditIdle == [pc |-> "idle", user |-> NoUser, done |-> 0]

\* addPointsToUser, first statement: db.point.create
CreditCreate(u) ==
    /\ cr.pc = "idle"
    /\ cr.done < MaxCredits
    /\ points' = Append(points, NewGrant(u, ReferralBonus, "Referral", 0))
    /\ cr' = [cr EXCEPT !.pc = "update", !.user = u]
    /\ UNCHANGED <<now, events, tickets, users, coupons, transactions,
                   transactionItems, transactionCoupons, bk, started, cl, au,
                   og>>

\* addPointsToUser, second statement: db.user.update, increment
CreditUpdate ==
    /\ cr.pc = "update"
    /\ ~LockedByAny("users", cr.user)
    /\ users' = [users EXCEPT ![cr.user].pointsBalance = @ + ReferralBonus]
    /\ cr' = [pc |-> "idle", user |-> NoUser, done |-> cr.done + 1]
    /\ UNCHANGED <<now, events, tickets, coupons, points, transactions,
                   transactionItems, transactionCoupons, bk, started, cl, au,
                   og>>

\* a month passes
Tick ==
    /\ now < MaxTime
    /\ now' = now + 1
    /\ UNCHANGED <<store, bk, started, cl, cr, au, og>>

(***************************************************************************)
(* lib/auth.ts and routes/auth.ts: POST /register and POST /login, one     *)
(* action per awaited statement.  All their statements go through the      *)
(* global client db.                                                       *)
(***************************************************************************)
MaxRequests == 3

Emails == {"a@x.io", "b@x.io", "c@x.io"}

\* bcrypt reads a password up to its 72nd byte.  A password is the pair of
\* its first 72 bytes and of the bytes that follow them: one short password,
\* and two long ones that differ after the 72nd byte.
Passwords ==
    {[first |-> "password123", rest |-> ""],
     [first |-> "seventy-two-bytes", rest |-> "A"],
     [first |-> "seventy-two-bytes", rest |-> "B"]}

Salts == {"salt1", "salt2"}

\* lib/auth.ts hashPassword: bcrypt.hash(password, 12), with the salt it drew
hashPassword(password, salt) ==
    [salt |-> salt, digest |-> <<salt, password.first>>]

\* lib/auth.ts comparePassword: bcrypt.compare(password, hashedPassword)
comparePassword(password, hashedPassword) ==
    hashedPassword.digest = <<hashedPassword.salt, password.first>>

\* lib/auth.ts generateReferralCode: the values of
\* Math.random().toString(36).substring(2, 8).toUpperCase()
GeneratedCodes == {"AB12CD", "EF34GH", "IJ56KL"}

\* String.prototype.toUpperCase on one character: a lower-case letter of
\* the alphabet a-z becomes its capital
UpperCaseOf ==
    LET lower == <<"a", "b", "c", "d", "e", "f", "g", "h", "i", "j", "k",
                   "l", "m", "n", "o", "p", "q", "r", "s", "t", "u", "v",
                   "w", "x", "y", "z">>
        upper == <<"A", "B", "C", "D", "E", "F", "G", "H", "I", "J", "K",
                   "L", "M", "N", "O", "P", "Q", "R", "S", "T", "U", "V",
                   "W", "X", "Y", "Z">>
    IN [c \in {lower[i] : i \in 1..Len(lower)} |->
           upper[CHOOSE i \in 1..Len(lower) : lower[i] = c]]

\* validatedData.referralCode.toUpperCase(): character by character, every
\* lower-case letter replaced by its capital and every other character
\* (capitals, digits, signs) kept
RECURSIVE ToUpperCase(_)
ToUpperCase(code) ==
    IF Len(code) = 0 THEN ""
    ELSE LET c == SubSeq(code, 1, 1)
         IN (IF c \in DOMAIN UpperCaseOf THEN UpperCaseOf[c] ELSE c)
               \o ToUpperCase(SubSeq(code, 2, Len(code)))

\* utils.ts createReferralDiscount: `REF${...}`
ReferralCouponCode(code) == "REF" \o code

\* the ids the store gives the rows it creates (uuid), in creation order
UserIdOf == <<"u1", "u2", "u3", "u4">>
CouponIdOf == <<"c1", "c2", "c3", "c4">>

NoPassword == [first |-> "", rest |-> ""]

AuthIdle ==
    [pc |-> "idle", kind |-> "none", served |-> 0,
     \* the request: validatedData
     email |-> "", password |-> NoPassword, referralCode |-> NoCode,
     \* the locals of the handler
     referredBy |-> NoUser, hashedPassword |-> [salt |-> "", digest |-> <<>>],
     userId |-> NoUser,
     \* the response
     status |-> 0, message |-> "",
     \* (not in the program) the password each user registered with, and
     \* the tables as they were when the request arrived
     registered |-> <<>>, pre |-> <<>>]

\* res.status(status).json(...)
Respond(status, message) ==
    au' = [au EXCEPT !.pc = "responded", !.status = status,
                     !.message = message, !.served = @ + 1]

\* a request arrives at a handler of routes/auth.ts
AuthBegin(kind, r) ==
    /\ au.pc \in {"idle", "responded"}
    /\ au.served < MaxRequests
    /\ au' = [AuthIdle EXCEPT !.pc = IF kind = "register" THEN "findEmail"
                                     ELSE "loginFind",
                              !.kind = kind, !.served = au.served,
                              !.email = r.email, !.password = r.password,
                              !.referralCode = r.referralCode,
                              !.registered = au.registered,
                              !.pre = [users |-> users, coupons |-> coupons,
                                       points |-> points]]
    /\ UNCHANGED <<now, store, bk, started, cl, cr, og>>

RegisterBegin(r) == AuthBegin("register", r)

\* db.user.findUnique({ where: { email } }): "User already exists"
RegisterFindEmail ==
    /\ au.pc = "findEmail"
    /\ IF \E u \in DOMAIN users : users[u].email = au.email
       THEN Respond(400, "User already exists")
       ELSE au' = [au EXCEPT !.pc = IF au.referralCode # NoCode
                                     THEN "findReferrer" ELSE "hashPassword"]
    /\ UNCHANGED <<now, store, bk, started, cl, cr, og>>

\* db.user.findUnique({ where: { referralCode: referralCode.toUpperCase() } })
RegisterFindReferrer ==
    /\ au.pc = "findReferrer"
    /\ LET referrers == {u \in DOMAIN users :
                            users[u].referralCode = ToUpperCase(au.referralCode)}
       IN IF referrers = {}
          THEN Respond(400, "Invalid referral code")
          ELSE \E referrer \in referrers :
                  au' = [au EXCEPT !.pc = "hashPassword",
                                   !.referredBy = referrer]
    /\ UNCHANGED <<now, store, bk, started, cl, cr, og>>

\* await hashPassword(validatedData.password)
RegisterHashPassword ==
    /\ au.pc = "hashPassword"
    /\ \E salt \in Salts :
          au' = [au EXCEPT !.pc = "createUser",
                           !.hashedPassword = hashPassword(au.password, salt)]
    /\ UNCHANGED <<now, store, bk, started, cl, cr, og>>

\* generateReferralCode and db.user.create; the insert fails on the unique
\* indexes of email and referralCode, and the handler's catch answers 500
RegisterCreateUser ==
    /\ au.pc = "createUser"
    /\ \E referralCode \in GeneratedCodes :
          IF \E u \in DOMAIN users : \/ users[u].email = au.email
                                     \/ users[u].referralCode = referralCode
          THEN /\ Respond(500, "Internal server error")
               /\ UNCHANGED users
          ELSE LET id == UserIdOf[Cardinality(DOMAIN users) + 1] IN
               /\ users' = users @@ (id :>
                     [email |-> au.email,
                      password |-> au.hashedPassword,
                      referralCode |-> referralCode,
                      referredBy |-> au.referredBy,
                      pointsBalance |-> 0])
               /\ IF au.referredBy # NoUser
                  THEN au' = [au EXCEPT !.pc = "addPointsCreate",
                                        !.userId = id,
                                        !.registered = @ @@ (id :> au.password)]
                  ELSE au' = [au EXCEPT !.pc = "responded", !.status = 201,
                                        !.message = "User registered successfully",
                                        !.served = @ + 1,
                                        !.userId = id,
                                        !.registered = @ @@ (id :> au.password)]
    /\ UNCHANGED <<now, events, tickets, coupons, points, transactions,
                   transactionItems, transactionCoupons, bk, started, cl, cr,
                   og>>

\* addPointsToUser(referredBy, 10000, ...), first statement: db.point.create
RegisterAddPointsCreate ==
    /\ au.pc = "addPointsCreate"
    /\ points' = Append(points,
          NewGrant(au.referredBy, ReferralBonus, "Referral", 0))
    /\ au' = [au EXCEPT !.pc = "addPointsUpdate"]
    /\ UNCHANGED <<now, events, tickets, users, coupons, transactions,
                   transactionItems, transactionCoupons, bk, started, cl, cr,
                   og>>

\* addPointsToUser(referredBy, 10000, ...), second statement: db.user.update
RegisterAddPointsUpdate ==
    /\ au.pc = "addPointsUpdate"
    /\ ~LockedByAny("users", au.referredBy)
    /\ users' = [users EXCEPT ![au.referredBy].pointsBalance =
                    @ + ReferralBonus]
    /\ au' = [au EXCEPT !.pc = "createCoupon"]
    /\ UNCHANGED <<now, events, tickets, coupons, points, transactions,
                   transactionItems, transactionCoupons, bk, started, cl, cr,
                   og>>

\* createReferralDiscount(user.id): db.discountCoupon.create with a code drawn
\* like a referral code; the insert fails on the unique index of code, and
\* the handler's catch answers 500
RegisterCreateCoupon ==
    /\ au.pc = "createCoupon"
    /\ \E drawn \in GeneratedCodes :
          LET code == ReferralCouponCode(drawn) IN
          IF \E c \in DOMAIN coupons : coupons[c].code = code
          THEN /\ Respond(500, "Internal server error")
               /\ UNCHANGED coupons
          ELSE /\ coupons' = coupons @@
                     (CouponIdOf[Cardinality(DOMAIN coupons) + 1] :>
                        [userId |-> au.userId, code |-> code,
                         discountPercent |-> ReferralPercent,
                         isUsed |-> FALSE, expiresAt |-> now + ExpiryMonths,
                         createdAt |-> now])
               /\ Respond(201, "User registered successfully")
    /\ UNCHANGED <<now, events, tickets, users, points, transactions,
                   transactionItems, transactionCoupons, bk, started, cl, cr,
                   og>>

LoginBegin(r) == AuthBegin("login", r)

\* db.user.findUnique({ where: { email } })
LoginFindUser ==
    /\ au.pc = "loginFind"
    /\ LET found == {u \in DOMAIN users : users[u].email = au.email} IN
       IF found = {}
       THEN Respond(401, "Invalid credentials")
       ELSE \E u \in found : au' = [au EXCEPT !.pc = "compare", !.userId = u]
    /\ UNCHANGED <<now, store, bk, started, cl, cr, og>>

\* comparePassword(validatedData.password, user.password)
LoginCompare ==
    /\ au.pc = "compare"
    /\ IF comparePassword(au.password, users[au.userId].password)
       THEN Respond(200, "Login successful")
       ELSE Respond(401, "Invalid credentials")
    /\ UNCHANGED <<now, store, bk, started, cl, cr, og>>

(***************************************************************************)
(* routes/tickets.ts and routes/events.ts: the organizer creates, updates  *)
(* or deletes a ticket or an event, one action per awaited statement.  All *)
(* their statements go through the global client db.  The routes of        *)
(* tickets authenticate with authenticateToken of lib/auth.ts, which reads *)
(* the claim id of the token; the routes of events authenticate with       *)
(* authenticateClerkToken of lib/clerk-auth.ts, which reads the claim      *)
(* userId.                                                                 *)
(***************************************************************************)
MaxSeats == 3

MaxOrganizerRequests == 2

Organizers == {"o1", "o2"}

\* the ids the store gives the rows it creates (uuid), in creation order
TicketIdOf == <<"t3", "t4", "t5">>
EventIdOf == <<"e2", "e3", "e4">>

NoData == [none |-> TRUE]

\* the claim of the token that carries the id of its user: id in the tokens
\* POST /login and POST /register sign (generateToken({ id, email, role })),
\* userId in the tokens of generateJWT
Tokens == {"id", "userId"}

\* the value of a claim the token does not carry
Undefined == "undefined"

OrgIdle ==
    [pc |-> "idle", kind |-> "none", served |-> 0,
     \* the request: req.user.id, req.params.id, validatedData, and whether
     \* the numbers of validatedData are whole (z.number() admits the others)
     organizer |-> "", id |-> "", data |-> NoData, integral |-> TRUE,
     \* the response
     status |-> 0,
     \* the rows created so far
     ticketsCreated |-> 0, eventsCreated |-> 0]

\* res.status(status).json(...)
OrgRespond(status) ==
    og' = [og EXCEPT !.pc = "responded", !.status = status, !.served = @ + 1]

\* a row lock, or the key-share lock of a pending insert that references
\* the row, held by an open transaction
TicketHeld(id) ==
    \E q \in Procs :
       /\ bk[q].open
       /\ \/ id \in bk[q].locks.tickets
          \/ \E x \in bk[q].insItems : x.ticketId = id

EventHeld(id) ==
    \E q \in Procs :
       /\ bk[q].open
       /\ \/ id \in bk[q].locks.events
          \/ \E t \in bk[q].insTransaction : t.eventId = id

\* update({ data }): the columns named by data take its values
Updated(row, data) ==
    [f \in DOMAIN row |-> IF f \in DOMAIN data THEN data[f] ELSE row[f]]

\* a request arrives at a handler of routes/tickets.ts or routes/events.ts,
\* passes the middleware of the route, which sets req.user.id, and its body
\* is parsed.  In the routes of tickets authenticateToken sets it to the id
\* of the row db.user.findUnique({ where: { id: decoded.id } }) returns, and
\* answers 403 to a token without the claim id (findUnique throws on
\* id: undefined); in the routes of events authenticateClerkToken sets it to
\* decoded.userId
OrgBegin(r) ==
    /\ og.pc \in {"idle", "responded"}
    /\ og.served < MaxOrganizerRequests
    /\ LET arrived == [og EXCEPT !.kind = r.kind, !.id = r.id,
                                 !.data = r.data, !.integral = r.integral]
       IN IF r.kind \in {"postTicket", "putTicket", "deleteTicket"}
          THEN IF r.token = "id"
               THEN og' = [arrived EXCEPT !.pc = r.kind,
                                          !.organizer = r.organizer,
                                          !.status = 0]
               ELSE og' = [arrived EXCEPT !.pc = "responded",
                                          !.organizer = Undefined,
                                          !.status = 403, !.served = @ + 1]
          ELSE og' = [arrived EXCEPT !.pc = r.kind,
                                     !.organizer = IF r.token = "userId"
                                                   THEN r.organizer
                                                   ELSE Undefined,
                                     !.status = 0]
    /\ UNCHANGED <<now, store, bk, started, cl, cr, au>>

\* the ticket is of an event of the organizer
OwnsTicket(organizer, id) ==
    /\ id \in DOMAIN tickets
    /\ tickets[id].eventId \in DOMAIN events
    /\ events[tickets[id].eventId].organizerId = organizer

\* where: { id, organizerId }: a condition whose value is undefined is no
\* condition
OwnsEvent(organizer, id) ==
    /\ id \in DOMAIN events
    /\ organizer = Undefined \/ events[id].organizerId = organizer

\* POST /api/tickets: db.event.findFirst({ where: { id: eventId, organizerId } })
PostTicketFind ==
    /\ og.pc = "postTicket"
    /\ IF OwnsEvent(og.organizer, og.data.eventId)
       THEN og' = [og EXCEPT !.pc = "postTicketCreate"]
       ELSE OrgRespond(404)
    /\ UNCHANGED <<now, store, bk, started, cl, cr, au>>

\* POST /api/tickets: db.ticket.create({ data: validatedData }); the insert
\* fails on a number that is not whole and on an event that is no longer there
PostTicketCreate ==
    /\ og.pc = "postTicketCreate"
    /\ IF ~og.integral \/ og.data.eventId \notin DOMAIN events
       THEN OrgRespond(500) /\ UNCHANGED tickets
       ELSE /\ tickets' = tickets @@ (TicketIdOf[og.ticketsCreated + 1] :>
                             [eventId |-> og.data.eventId,
                              price |-> og.data.price,
                              quantity |-> og.data.quantity, sold |-> 0])
            /\ og' = [og EXCEPT !.pc = "responded", !.status = 201,
                                !.served = @ + 1, !.ticketsCreated = @ + 1]
    /\ UNCHANGED <<now, events, users, coupons, points, transactions,
                   transactionItems, transactionCoupons, bk, started, cl, cr,
                   au>>

\* PUT /api/tickets/:id: db.ticket.findFirst({ where: { id, event: { organizerId } } })
PutTicketFind ==
    /\ og.pc = "putTicket"
    /\ IF OwnsTicket(og.organizer, og.id)
       THEN og' = [og EXCEPT !.pc = "putTicketUpdate"]
       ELSE OrgRespond(404)
    /\ UNCHANGED <<now, store, bk, started, cl, cr, au>>

\* PUT /api/tickets/:id: db.ticket.update({ where: { id }, data: validatedData });
\* it fails, before any statement is sent, on a number that is not whole,
\* and on a row that is no longer there; it waits for the row lock of an
\* open transaction, and then fails on an eventId of no event (the foreign
\* key is checked on the row once it is locked)
PutTicketUpdate ==
    /\ og.pc = "putTicketUpdate"
    /\ IF ~og.integral \/ og.id \notin DOMAIN tickets
       THEN OrgRespond(500) /\ UNCHANGED tickets
       ELSE /\ ~LockedByAny("tickets", og.id)
            /\ IF /\ "eventId" \in DOMAIN og.data
                  /\ og.data.eventId \notin DOMAIN events
               THEN OrgRespond(500) /\ UNCHANGED tickets
               ELSE /\ tickets' = [tickets EXCEPT
                                      ![og.id] = Updated(@, og.data)]
                    /\ OrgRespond(200)
    /\ UNCHANGED <<now, events, users, coupons, points, transactions,
                   transactionItems, transactionCoupons, bk, started, cl, cr,
                   au>>

\* DELETE /api/tickets/:id: db.ticket.findFirst, then the check of sold
DeleteTicketFind ==
    /\ og.pc = "deleteTicket"
    /\ IF ~OwnsTicket(og.organizer, og.id)
       THEN OrgRespond(404)
       ELSE IF tickets[og.id].sold > 0
       THEN OrgRespond(400)
       ELSE og' = [og EXCEPT !.pc = "deleteTicketDelete"]
    /\ UNCHANGED <<now, store, bk, started, cl, cr, au>>

\* DELETE /api/tickets/:id: db.ticket.delete({ where: { id } }); it waits for
\* the open transactions that hold the row, and fails on a row that is no
\* longer there or that a line item references (ON DELETE RESTRICT)
DeleteTicketDelete ==
    /\ og.pc = "deleteTicketDelete"
    /\ IF og.id \notin DOMAIN tickets
       THEN OrgRespond(500) /\ UNCHANGED tickets
       ELSE /\ ~TicketHeld(og.id)
            /\ IF \E x \in transactionItems : x.ticketId = og.id
               THEN OrgRespond(500) /\ UNCHANGED tickets
               ELSE /\ tickets' = [t \in DOMAIN tickets \ {og.id} |-> tickets[t]]
                    /\ OrgRespond(200)
    /\ UNCHANGED <<now, events, users, coupons, points, transactions,
                   transactionItems, transactionCoupons, bk, started, cl, cr,
                   au>>

\* POST /api/events: db.event.create({ data: { ...validatedData, organizerId } });
\* status and bookedSeats take their defaults; the insert fails on a number
\* that is not whole and on an organizerId that is undefined
PostEventCreate ==
    /\ og.pc = "postEvent"
    /\ IF ~og.integral \/ og.organizer = Undefined
       THEN OrgRespond(500) /\ UNCHANGED events
       ELSE /\ events' = events @@ (EventIdOf[og.eventsCreated + 1] :>
                            [status |-> "DRAFT",
                             availableSeats |-> og.data.availableSeats,
                             bookedSeats |-> 0,
                             organizerId |-> og.organizer])
            /\ og' = [og EXCEPT !.pc = "responded", !.status = 201,
                                !.served = @ + 1, !.eventsCreated = @ + 1]
    /\ UNCHANGED <<now, tickets, users, coupons, points, transactions,
                   transactionItems, transactionCoupons, bk, started, cl, cr,
                   au>>

\* PUT /api/events/:id: db.event.findFirst({ where: { id, organizerId } })
PutEventFind ==
    /\ og.pc = "putEvent"
    /\ IF OwnsEvent(og.organizer, og.id)
       THEN og' = [og EXCEPT !.pc = "putEventUpdate"]
       ELSE OrgRespond(404)
    /\ UNCHANGED <<now, store, bk, started, cl, cr, au>>

\* PUT /api/events/:id: db.event.update({ where: { id }, data: updateData })
PutEventUpdate ==
    /\ og.pc = "putEventUpdate"
    /\ IF ~og.integral \/ og.id \notin DOMAIN events
       THEN OrgRespond(500) /\ UNCHANGED events
       ELSE /\ ~LockedByAny("events", og.id)
            /\ events' = [events EXCEPT ![og.id] = Updated(@, og.data)]
            /\ OrgRespond(200)
    /\ UNCHANGED <<now, tickets, users, coupons, points, transactions,
                   transactionItems, transactionCoupons, bk, started, cl, cr,
                   au>>

\* DELETE /api/events/:id: db.event.findFirst({ where: { id, organizerId } })
DeleteEventFind ==
    /\ og.pc = "deleteEvent"
    /\ IF OwnsEvent(og.organizer, og.id)
       THEN og' = [og EXCEPT !.pc = "deleteEventDelete"]
       ELSE OrgRespond(404)
    /\ UNCHANGED <<now, store, bk, started, cl, cr, au>>

\* DELETE /api/events/:id: db.event.delete({ where: { id } }), which deletes
\* the tickets of the event with it (ON DELETE CASCADE); it waits for the
\* open transactions that hold one of these rows, and fails on a row that is
\* no longer there, on an event a transaction references and on a ticket a
\* line item references (ON DELETE RESTRICT)
DeleteEventDelete ==
    /\ og.pc = "deleteEventDelete"
    /\ IF og.id \notin DOMAIN events
       THEN OrgRespond(500) /\ UNCHANGED <<events, tickets>>
       ELSE LET ofEvent == {t \in DOMAIN tickets : tickets[t].eventId = og.id}
            IN /\ ~EventHeld(og.id)
               /\ \A t \in ofEvent : ~TicketHeld(t)
               /\ IF \/ \E t \in transactions : t.eventId = og.id
                     \/ \E x \in transactionItems : x.ticketId \in ofEvent
                  THEN OrgRespond(500) /\ UNCHANGED <<events, tickets>>
                  ELSE /\ events' = [e \in DOMAIN events \ {og.id} |-> events[e]]
                       /\ tickets' = [t \in DOMAIN tickets \ ofEvent |->
                                         tickets[t]]
                       /\ OrgRespond(200)
    /\ UNCHANGED <<now, users, coupons, points, transactions,
                   transactionItems, transactionCoupons, bk, started, cl, cr,
                   au>>

\* the steps of one organizer request after its arrival
OrganizerStep ==
    \/ PostTicketFind
    \/ PostTicketCreate
    \/ PutTicketFind
    \/ PutTicketUpdate
    \/ DeleteTicketFind
    \/ DeleteTicketDelete
    \/ PostEventCreate
    \/ PutEventFind
    \/ PutEventUpdate
    \/ DeleteEventFind
    \/ DeleteEventDelete

(***************************************************************************)
(* Initial states and requests.                                            *)
(***************************************************************************)
Item(t, q) == [ticketId |-> t, quantity |-> q]

\* the bodies the handler is sent: transactionSchema of lib/validations
Requests ==
    [user : UserIds,
     eventId : {"e1"},
     items : {<<Item("t1", 1)>>, <<Item("t2", 1)>>,
              <<Item("t1", 1), Item("t2", 1)>>},
     couponCode : {NoCode, "REF1"},
     pointsToUse : {0, 1000}]

InitProcesses ==
    /\ now = 0
    /\ transactions = {}
    /\ transactionItems = {}
    /\ transactionCoupons = {}
    /\ bk = [p \in Procs |-> Idle]
    /\ started = 0
    /\ cl = CleanupIdle
    /\ cr = CreditIdle
    /\ au = AuthIdle
    /\ og = OrgIdle

\* u1 was referred (a 10% coupon) and holds one grant of 1000 points
InitialBalance(u) == IF u = "u1" THEN 1000 ELSE 0

InitAccounts ==
    /\ users = [u \in UserIds |-> [pointsBalance |-> InitialBalance(u)]]
    /\ coupons = [c \in CouponIds |->
                    [userId |-> "u1", code |-> "REF1",
                     discountPercent |-> ReferralPercent, isUsed |-> FALSE,
                     expiresAt |-> 0]]
    /\ points = <<[earnedById |-> "u1", usedById |-> NoUser, amount |-> 1000,
                   expiresAt |-> 0, isUsed |-> FALSE,
                   description |-> "Initial", attempt |-> 0]>>

\* one published event with two ticket types: two seats left, one ticket t1
\* and two tickets t2 left
Init ==
    /\ InitProcesses
    /\ InitAccounts
    /\ events = [e \in EventIds |->
                   [status |-> "PUBLISHED", availableSeats |-> 3,
                    bookedSeats |-> 1]]
    /\ tickets = [t \in TicketIds |->
                    IF t = "t1"
                    THEN [eventId |-> "e1", price |-> 2000, quantity |-> 2,
                          sold |-> 1]
                    ELSE [eventId |-> "e1", price |-> 1000, quantity |-> 2,
                          sold |-> 0]]

\* the steps of one booking request after its arrival
BookingStep(p) ==
    \/ FindEvent(p)
    \/ FindCoupon(p)
    \/ FindUser(p)
    \/ CreateTransaction(p)
    \/ CreateItem(p)
    \/ UpdateTicket(p)
    \/ UpdateEvent(p)
    \/ UpdateCoupon(p)
    \/ CreateTransactionCoupon(p)
    \/ UpdateUser(p)
    \/ FindPoints(p)
    \/ UpdatePoint(p)
    \/ AwardCreate(p)
    \/ AwardUpdate(p)
    \/ Commit(p)
    \/ ReadBack(p)

\* Concurrent booking requests; a transaction ends without a commit when a
\* statement of it has waited too long.  A request is served within the
\* month it arrives in.
Next ==
    \/ \E p \in Procs : \E r \in Requests : Begin(p, r, NoSnapshot)
    \/ \E p \in Procs : BookingStep(p)
    \/ \E p \in Procs : Timeout(p)
    \/ Quiet /\ Tick

Spec == Init /\ [][Next]_vars

(***************************************************************************)
(* Scenario 1: one ticket type with quantity 10 and sold 8, and two         *)
(* requests that each book 2 of it.                                        *)
(***************************************************************************)
Scenario1Requests ==
    [user : UserIds, eventId : {"e1"}, items : {<<Item("t1", 2)>>},
     couponCode : {NoCode}, pointsToUse : {0, 1000}]

InitScenario1 ==
    /\ InitProcesses
    /\ InitAccounts
    /\ events = [e \in EventIds |->
                   [status |-> "PUBLISHED", availableSeats |-> 100,
                    bookedSeats |-> 8]]
    /\ tickets = [t \in TicketIds |->
                    IF t = "t1"
                    THEN [eventId |-> "e1", price |-> 2000, quantity |-> 10,
                          sold |-> 8]
                    ELSE [eventId |-> "e1", price |-> 1000, quantity |-> 2,
                          sold |-> 0]]

NextScenario1 ==
    \/ \E p \in Procs : \E r \in Scenario1Requests : Begin(p, r, NoSnapshot)
    \/ \E p \in Procs : BookingStep(p)
    \/ \E p \in Procs : Timeout(p)

SpecScenario1 == InitScenario1 /\ [][NextScenario1]_vars

(***************************************************************************)
(* Operations one at a time: a booking, a referral credit or an expiry run *)
(* starts only when no other is in progress, and is over within the month. *)
(***************************************************************************)
NothingInProgress == Quiet /\ cl.pc = "idle" /\ cr.pc = "idle"

NextSerial ==
    \/ \E p \in Procs : \E r \in Requests :
          NothingInProgress /\ Begin(p, r, Snapshot)
    \/ \E p \in Procs : BookingStep(p)
    \/ \E p \in Procs : Timeout(p)
    \/ NothingInProgress /\ CleanupFind
    \/ CleanupDecrement
    \/ CleanupUpdateMany
    \/ \E u \in UserIds : NothingInProgress /\ CreditCreate(u)
    \/ CreditUpdate
    \/ NothingInProgress /\ Tick

SpecSerial == Init /\ [][NextSerial]_vars

(***************************************************************************)
(* Settlement: bookings one at a time on a store with coupons of several   *)
(* percentages.  u1 holds three coupons, two of them of the same           *)
(* percentage; u2 holds 5000 points in one grant and no coupon.            *)
(***************************************************************************)
SettleRequests ==
    [user : UserIds,
     eventId : {"e1"},
     items : {<<Item("t1", 1)>>, <<Item("t2", 1)>>},
     couponCode : {NoCode, "SAVE20", "SAVE15", "GONE"},
     pointsToUse : {0, 8000}]

SettleCoupons ==
    [c \in {"c1", "c2", "c3"} |->
        CASE c = "c1" -> [userId |-> "u1", code |-> "SAVE20",
                          discountPercent |-> 20, isUsed |-> FALSE,
                          expiresAt |-> 0, createdAt |-> -2]
          [] c = "c2" -> [userId |-> "u1", code |-> "MORE20",
                          discountPercent |-> 20, isUsed |-> FALSE,
                          expiresAt |-> 0, createdAt |-> -1]
          [] c = "c3" -> [userId |-> "u1", code |-> "SAVE15",
                          discountPercent |-> 15, isUsed |-> FALSE,
                          expiresAt |-> 1, createdAt |-> -1]]

InitSettle ==
    /\ InitProcesses
    /\ users = [u \in UserIds |->
                  [pointsBalance |-> IF u = "u2" THEN 5000 ELSE 0]]
    /\ coupons = SettleCoupons
    /\ points = <<[earnedById |-> "u2", usedById |-> NoUser, amount |-> 5000,
                   expiresAt |-> 1, isUsed |-> FALSE,
                   description |-> "Initial", attempt |-> 0]>>
    /\ events = [e \in EventIds |->
                   [status |-> "PUBLISHED", availableSeats |-> 10,
                    bookedSeats |-> 0]]
    /\ tickets = [t \in TicketIds |->
                    IF t = "t1"
                    THEN [eventId |-> "e1", price |-> 6000, quantity |-> 5,
                          sold |-> 0]
                    ELSE [eventId |-> "e1", price |-> 2550, quantity |-> 5,
                          sold |-> 0]]

NextSettle ==
    \/ \E p \in Procs : \E r \in SettleRequests :
          NothingInProgress /\ Begin(p, r, Snapshot)
    \/ \E p \in Procs : BookingStep(p)
    \/ \E p \in Procs : Timeout(p)
    \/ NothingInProgress /\ Tick

SpecSettle == InitSettle /\ [][NextSettle]_vars

(***************************************************************************)
(* Events of every status: bookings one at a time, for an event that is    *)
(* published, one that is not, or one that does not exist.                 *)
(***************************************************************************)
EventRequests ==
    [user : UserIds,
     eventId : {"e0", "e1", "e2", "e3", "e4"},
     items : {<<Item("t1", 1)>>, <<Item("t2", 1)>>},
     couponCode : {NoCode},
     pointsToUse : {0, 1000}]

InitEvents ==
    /\ InitProcesses
    /\ InitAccounts
    /\ events = [e \in {"e1", "e2", "e3", "e4"} |->
                   [status |-> CASE e = "e1" -> "PUBLISHED"
                                 [] e = "e2" -> "DRAFT"
                                 [] e = "e3" -> "CANCELLED"
                                 [] e = "e4" -> "COMPLETED",
                    availableSeats |-> 3, bookedSeats |-> 1]]
    /\ tickets = [t \in TicketIds |->
                    IF t = "t1"
                    THEN [eventId |-> "e1", price |-> 3000, quantity |-> 2,
                          sold |-> 1]
                    ELSE [eventId |-> "e2", price |-> 1000, quantity |-> 2,
                          sold |-> 0]]

NextEvents ==
    \/ \E p \in Procs : \E r \in EventRequests :
          NothingInProgress /\ Begin(p, r, store)
    \/ \E p \in Procs : BookingStep(p)
    \/ \E p \in Procs : Timeout(p)

SpecEvents == InitEvents /\ [][NextEvents]_vars

(***************************************************************************)
(* Requests to routes/auth.ts, one at a time, on a store with one user.    *)
(***************************************************************************)
\* scripts/seed.ts: the password of the users it creates
SeedPassword == [first |-> "password123", rest |-> ""]

RegisterRequests ==
    [email : Emails, password : Passwords,
     referralCode : {NoCode, "ab12cd", "AB12cd", "EF34GH", "ZZ99ZZ"}]

LoginRequests ==
    [email : Emails, password : Passwords, referralCode : {NoCode}]

InitAuth ==
    /\ InitProcesses
    /\ users = [u \in {"u1"} |->
                  [email |-> "a@x.io",
                   password |-> hashPassword(SeedPassword, "salt1"),
                   referralCode |-> "AB12CD", referredBy |-> NoUser,
                   pointsBalance |-> 0]]
    /\ coupons = <<>>
    /\ points = <<>>
    /\ events = [e \in EventIds |->
                   [status |-> "PUBLISHED", availableSeats |-> 3,
                    bookedSeats |-> 1]]
    /\ tickets = [t \in TicketIds |->
                    [eventId |-> "e1", price |-> 1000, quantity |-> 2,
                     sold |-> 0]]

NextAuth ==
    \/ \E r \in RegisterRequests : RegisterBegin(r)
    \/ RegisterFindEmail
    \/ RegisterFindReferrer
    \/ RegisterHashPassword
    \/ RegisterCreateUser
    \/ RegisterAddPointsCreate
    \/ RegisterAddPointsUpdate
    \/ RegisterCreateCoupon
    \/ \E r \in LoginRequests : LoginBegin(r)
    \/ LoginFindUser
    \/ LoginCompare

SpecAuth == InitAuth /\ [][NextAuth]_vars

(***************************************************************************)
(* Line items: bookings one at a time whose items lists name a ticket      *)
(* once, with a quantity of two, or in two line items.                     *)
(***************************************************************************)
ItemRequests ==
    [user : UserIds,
     eventId : {"e1"},
     items : {<<Item("t1", 1)>>, <<Item("t2", 2)>>,
              <<Item("t1", 1), Item("t1", 1)>>,
              <<Item("t1", 1), Item("t2", 1)>>},
     couponCode : {NoCode},
     pointsToUse : {0, 1000}]

NextItems ==
    \/ \E p \in Procs : \E r \in ItemRequests :
          NothingInProgress /\ Begin(p, r, NoSnapshot)
    \/ \E p \in Procs : BookingStep(p)
    \/ \E p \in Procs : Timeout(p)

SpecItems == Init /\ [][NextItems]_vars

(***************************************************************************)
(* The points ledger: bookings of u1, referral credits and expiry runs,    *)
(* one at a time.  u1 holds three grants, of 700, 500 and 300 points, the   *)
(* oldest of which expires first; the coupon REF1 is u2's.                 *)
(***************************************************************************)
LedgerRequests ==
    [user : {"u1"},
     eventId : {"e1"},
     items : {<<Item("t1", 1)>>, <<Item("t2", 1)>>},
     couponCode : {NoCode, "REF1"},
     pointsToUse : {0, 1000}]

LedgerGrant(amount, expiresAt) ==
    [earnedById |-> "u1", usedById |-> NoUser, amount |-> amount,
     expiresAt |-> expiresAt, isUsed |-> FALSE,
     description |-> "Initial", attempt |-> 0]

InitLedger ==
    /\ InitProcesses
    /\ users = [u \in UserIds |->
                  [pointsBalance |-> IF u = "u1" THEN 1500 ELSE 0]]
    /\ coupons = [c \in CouponIds |->
                    [userId |-> "u2", code |-> "REF1",
                     discountPercent |-> ReferralPercent, isUsed |-> FALSE,
                     expiresAt |-> ExpiryMonths]]
    /\ points = <<LedgerGrant(700, 0), LedgerGrant(500, 1), LedgerGrant(300, 1)>>
    /\ events = [e \in EventIds |->
                   [status |-> "PUBLISHED", availableSeats |-> 10,
                    bookedSeats |-> 0]]
    /\ tickets = [t \in TicketIds |->
                    IF t = "t1"
                    THEN [eventId |-> "e1", price |-> 2000, quantity |-> 5,
                          sold |-> 0]
                    ELSE [eventId |-> "e1", price |-> 1000, quantity |-> 5,
                          sold |-> 0]]

NextLedger ==
    \/ \E p \in Procs : \E r \in LedgerRequests :
          NothingInProgress /\ Begin(p, r, NoSnapshot)
    \/ \E p \in Procs : BookingStep(p)
    \/ \E p \in Procs : Timeout(p)
    \/ NothingInProgress /\ CleanupFind
    \/ CleanupDecrement
    \/ CleanupUpdateMany
    \/ NothingInProgress /\ CreditCreate("u1")
    \/ CreditUpdate
    \/ NothingInProgress /\ Tick

SpecLedger == InitLedger /\ [][NextLedger]_vars

(***************************************************************************)
(* Expiry while bookings run: the statements of cleanupExpiredPoints       *)
(* interleave with those of the bookings of u1, and a month may pass       *)
(* between any two statements.                                             *)
(***************************************************************************)
NextExpiry ==
    \/ \E p \in Procs : \E r \in LedgerRequests : Begin(p, r, NoSnapshot)
    \/ \E p \in Procs : BookingStep(p)
    \/ \E p \in Procs : Timeout(p)
    \/ CleanupFind
    \/ CleanupDecrement
    \/ CleanupUpdateMany
    \/ Tick

SpecExpiry == InitLedger /\ [][NextExpiry]_vars

(***************************************************************************)
(* Settlement with fairness: Node runs every continuation that is ready,   *)
(* and Prisma's timer closes a transaction whose statement waits, so a     *)
(* booking that can take a step, or time out, eventually does.             *)
(***************************************************************************)
FairSettle ==
    SpecSettle /\ \A p \in Procs : WF_vars(BookingStep(p) \/ Timeout(p))

(***************************************************************************)
(* The organizer's requests while bookings are served: the statements of   *)
(* an organizer request interleave with those of a booking.  The bookings  *)
(* are served one after the other.                                         *)
(***************************************************************************)
\* validatedData of ticketSchema.partial(): price >= 0, quantity >= 1
TicketData ==
    {[quantity |-> q] : q \in 1..MaxSeats}
       \cup {[price |-> 3000], [price |-> 0, quantity |-> 1],
             [eventId |-> "e2"]}

\* validatedData of ticketSchema
NewTicketData ==
    {[eventId |-> e, price |-> 5000, quantity |-> 4] : e \in {"e1", "e2"}}

\* validatedData of eventSchema.partial() and of eventSchema:
\* availableSeats >= 1
EventData == {[availableSeats |-> n] : n \in 1..MaxSeats}

\* the requests of the organizer o1, and those of o2 on what is o1's, with
\* the token of a login and with a token of generateJWT; the request of a
\* number that is not whole
OrganizerCalls ==
    [kind : {"putTicket"}, organizer : {"o1"}, id : TicketIds,
     data : TicketData, integral : {TRUE}, token : {"id"}]
    \cup [kind : {"putTicket"}, organizer : Organizers, id : {"t1"},
          data : {[quantity |-> 1]}, integral : BOOLEAN, token : Tokens]
    \cup [kind : {"postTicket"}, organizer : Organizers, id : {""},
          data : NewTicketData, integral : {TRUE}, token : {"id"}]
    \cup [kind : {"deleteTicket"}, organizer : Organizers, id : TicketIds,
          data : {NoData}, integral : {TRUE}, token : {"id"}]
    \cup [kind : {"putEvent"}, organizer : Organizers, id : EventIds,
          data : EventData, integral : {TRUE}, token : Tokens]
    \cup [kind : {"postEvent"}, organizer : {"o1"}, id : {""},
          data : {[availableSeats |-> MaxSeats]}, integral : BOOLEAN,
          token : Tokens]
    \cup [kind : {"deleteEvent"}, organizer : Organizers, id : EventIds,
          data : {NoData}, integral : {TRUE}, token : Tokens]

OrganizerRequests ==
    [user : {"u1"},
     eventId : {"e1"},
     items : {<<Item("t1", 1)>>, <<Item("t2", 1)>>},
     couponCode : {NoCode},
     pointsToUse : {0, 1000}]

\* the event of Init, which organizer o1 created
InitOrganizer ==
    /\ InitProcesses
    /\ InitAccounts
    /\ events = [e \in EventIds |->
                   [status |-> "PUBLISHED", availableSeats |-> 3,
                    bookedSeats |-> 1, organizerId |-> "o1"]]
    /\ tickets = [t \in TicketIds |->
                    IF t = "t1"
                    THEN [eventId |-> "e1", price |-> 2000, quantity |-> 2,
                          sold |-> 1]
                    ELSE [eventId |-> "e1", price |-> 1000, quantity |-> 2,
                          sold |-> 0]]

NextOrganizer ==
    \/ \E p \in Procs : \E r \in OrganizerRequests :
          Quiet /\ Begin(p, r, NoSnapshot)
    \/ \E p \in Procs : BookingStep(p)
    \/ \E p \in Procs : Timeout(p)
    \/ \E r \in OrganizerCalls : OrgBegin(r)
    \/ OrganizerStep

SpecOrganizer == InitOrganizer /\ [][NextOrganizer]_vars

(***************************************************************************)
(* Quantities the properties speak of.                                     *)
(***************************************************************************)
EndedProc(p) == bk[p].pc \in {"done", "failed"}

RECURSIVE SumPointsUsed(_)
\* the sum of pointsUsed over a set of transactions rows
SumPointsUsed(S) ==
    IF S = {} THEN 0
    ELSE LET t == CHOOSE x \in S : TRUE
         IN t.pointsUsed + SumPointsUsed(S \ {t})

RECURSIVE SumGrants(_, _)
\* the sum of the amounts of the grants with Ids among K
SumGrants(K, i) ==
    IF i > Len(points) THEN 0
    ELSE (IF i \in K THEN points[i].amount ELSE 0) + SumGrants(K, i + 1)

GrantsOf(u) == {k \in 1..Len(points) : points[k].earnedById = u}

UnusedGrantsOf(u) == {k \in GrantsOf(u) : ~points[k].isUsed}

\* the grants credited to u since the initial state
CreditedGrantsOf(u) == {k \in GrantsOf(u) : points[k].description # "Initial"}

TransactionsOf(u) == {t \in transactions : t.userId = u}

LinksOf(c) == {x \in transactionCoupons : x.discountCouponId = c}

(***************************************************************************)
(* The claims.                                                             *)
(***************************************************************************)

\* C1: whatever the interleaving of the booking requests, every committed
\* state has ticket.sold <= ticket.quantity for every ticket.
C1_SoldWithinQuantity ==
    \A t \in TicketIds : tickets[t].sold <= tickets[t].quantity

\* C2: whatever the interleaving of the booking requests on one event, every
\* committed state has event.bookedSeats <= event.availableSeats.
C2_SeatsWithinCapacity ==
    \A e \in EventIds : events[e].bookedSeats <= events[e].availableSeats

\* C3: in scenario 1 (quantity 10, sold 8, two concurrent requests for 2),
\* once both requests have been answered, neither because its transaction
\* was closed by a timeout, exactly one was persisted, the other failed for
\* capacity, and sold is 10.
C3_Scenario1ExactlyOne ==
    (/\ \A p \in Procs : EndedProc(p)
     /\ \A p \in Procs : bk[p].outcome \notin {"TransactionAborted",
                                                "TransactionClosed"})
    => /\ \E p \in Procs :
            /\ bk[p].outcome = "Persisted"
            /\ \A q \in Procs \ {p} : bk[q].outcome = "CapacityExceeded"
       /\ tickets["t1"].sold = 10

\* the rows a booking attempt leaves: its transaction, line items, coupon
\* link, and the grant of the points it earned
RowsOfAttempt(id) ==
    \/ \E t \in transactions : t.id = id
    \/ \E x \in transactionItems : x.transactionId = id
    \/ \E x \in transactionCoupons : x.transactionId = id
    \/ \E k \in 1..Len(points) : points[k].attempt = id

\* C4: when a booking attempt ends in failure, every Ticket.sold,
\* Event.bookedSeats, User.pointsBalance and DiscountCoupon.isUsed has the
\* value it had before the attempt, and no row of the attempt exists.
C4_FailedBookingChangesNothing ==
    [][\A p \in Procs :
          (Active(p) /\ bk'[p].pc = "failed")
          => (Snapshot' = bk[p].pre /\ ~RowsOfAttempt(bk[p].id)')]_vars

\* C5: in no state does a grant of purchase-earned points exist while the
\* transaction of the booking that earned them is not committed.
C5_EarnedPointsOnlyWhenCommitted ==
    \A k \in 1..Len(points) :
       points[k].description = "Purchase"
       => \E t \in transactions : t.id = points[k].attempt

\* C6: after every completed operation of a sequence of bookings, credits
\* and expiry runs, each user's pointsBalance equals the sum of the amounts
\* of that user's unused grants.
C6_BalanceEqualsUnusedGrants ==
    NothingInProgress
    => \A u \in UserIds :
          users[u].pointsBalance = SumGrants(UnusedGrantsOf(u), 1)

\* C7: in a sequence of non-interleaved bookings, credits and expiry runs
\* that starts with every balance equal to its ledger sum, no pointsBalance
\* is ever negative.
C7_BalanceNeverNegative ==
    \A u \in UserIds : users[u].pointsBalance >= 0

\* C8: whatever the interleaving of the bookings of one user, the points
\* used by that user's committed transactions do not exceed the initial
\* balance plus the points credited since, and the balance is not negative.
C8_NoDoubleSpend ==
    \A u \in UserIds :
       /\ SumPointsUsed(TransactionsOf(u))
             <= InitialBalance(u) + SumGrants(CreditedGrantsOf(u), 1)
       /\ users[u].pointsBalance >= 0

\* C9: whatever the interleaving of the bookings that reference one coupon,
\* at most one committed transaction is linked to the coupon and has its
\* discount.
C9_CouponUsedOnce ==
    \A c \in CouponIds : Cardinality(LinksOf(c)) <= 1

\* C10: every persisted transaction has
\* finalAmount = totalAmount - discountAmount - pointsUsed and finalAmount >= 0.
C10_PriceIdentity ==
    \A t \in transactions :
       /\ t.finalAmount = t.totalAmount - t.discountAmount - t.pointsUsed
       /\ t.finalAmount >= 0

\* C10, its case: a persisted transaction with a discount and with points
\* that pay all of the rest
C10_Witness ==
    \E t \in transactions :
       /\ t.discountAmount > 0
       /\ t.pointsUsed > 0
       /\ t.finalAmount = 0

(***************************************************************************)
(* Coupons, points and events of one booking.                              *)
(***************************************************************************)
\* process p takes a step of its booking
Steps(p) == Active(p) /\ bk'[p] # bk[p]

\* the coupons of a user, or all of them, that are unused and unexpired
LiveCoupons == {c \in DOMAIN coupons : ~coupons[c].isUsed
                                       /\ coupons[c].expiresAt >= now}

\* C11: a booking whose explicit coupon code is the code of no unused,
\* unexpired coupon fails with InvalidCoupon at the coupon lookup, and
\* nothing is persisted.
C11_InvalidCouponFails ==
    [][\A p \in Procs :
          (/\ Steps(p)
           /\ bk[p].pc = "findCoupon"
           /\ bk[p].couponCode # NoCode
           /\ \A c \in LiveCoupons : coupons[c].code # bk[p].couponCode)
          => /\ bk'[p].pc = "failed"
             /\ bk'[p].outcome = "InvalidCoupon"
             /\ store' = store]_vars

\* C12: every coupon linked to a committed transaction belongs to the user
\* of that transaction.
C12_CouponOfItsOwner ==
    \A x \in transactionCoupons : \A t \in transactions :
       t.id = x.transactionId
       => coupons[x.discountCouponId].userId = t.userId

LinksOfTransaction(id) == {x \in transactionCoupons : x.transactionId = id}

\* C13: a committed transaction has at most one coupon link, has one when
\* its discount is not zero, and then its discountAmount is
\* floor(totalAmount * discountPercent / 100) of the linked coupon, which is
\* marked used; 20% of 10000 is 2000.
C13_DiscountOfLinkedCoupon ==
    /\ DiscountAmount(10000, 20) = 2000
    /\ \A t \in transactions :
          /\ Cardinality(LinksOfTransaction(t.id)) <= 1
          /\ t.discountAmount > 0 => LinksOfTransaction(t.id) # {}
          /\ \A x \in LinksOfTransaction(t.id) :
                /\ t.discountAmount
                      = (t.totalAmount
                            * coupons[x.discountCouponId].discountPercent)
                        \div 100
                /\ coupons[x.discountCouponId].isUsed

\* C13, its case: a committed transaction with a coupon whose percentage of
\* the total is not a whole amount
C13_Witness ==
    \E t \in transactions : \E x \in LinksOfTransaction(t.id) :
       /\ (t.totalAmount * coupons[x.discountCouponId].discountPercent) % 100 # 0
       /\ t.discountAmount > 0

C15_PointsUsedIsTheMinimum ==
    [][\A p \in Procs :
          /\ (Steps(p) /\ bk[p].pc = "findUser" /\ bk'[p].pc # "failed")
             => /\ \A m \in {bk[p].reqPoints, users[bk[p].user].pointsBalance,
                             bk[p].totalAmount - bk[p].discountAmount} :
                      bk'[p].pointsToUse <= m
                /\ bk'[p].pointsToUse \in
                      {bk[p].reqPoints, users[bk[p].user].pointsBalance,
                       bk[p].totalAmount - bk[p].discountAmount}
          /\ (Steps(p) /\ bk[p].pc = "createTransaction"
                        /\ bk'[p].pc # "failed")
             => \A t \in bk'[p].insTransaction :
                   t.pointsUsed = bk[p].pointsToUse
          /\ (Steps(p) /\ bk[p].pc = "commit" /\ bk'[p].pc = "readBack")
             => \E t \in transactions' \ transactions :
                   users'[t.userId].pointsBalance
                      = users[t.userId].pointsBalance - t.pointsUsed
          /\ (/\ Steps(p)
              /\ bk[p].totalAmount = 6000 /\ bk[p].discountAmount = 0
              /\ bk[p].pointsToUse = 5000 /\ bk[p].finalAmount = 1000)
             => bk'[p].pc # "failed"]_vars

PurchaseGrantsOf(u) == {k \in GrantsOf(u) : points[k].description = "Purchase"}

InitialGrantsOf(u) == {k \in GrantsOf(u) : points[k].description = "Initial"}

\* C16: once a booking is over, every committed transaction with
\* floor(finalAmount / 1000) > 0 has exactly one grant, of that amount and of
\* its buyer, and every other one has none; and each balance is what the
\* user held at first, less the points used, plus the grants credited for
\* purchases; finalAmount 2500 gives 2 points.
C16_EarnedPointsCredited ==
    /\ calculatePoints(2500) = 2
    /\ NothingInProgress =>
          /\ \A t \in transactions :
                LET earned == t.finalAmount \div 1000
                    grants == {k \in 1..Len(points) : points[k].attempt = t.id}
                IN IF earned > 0
                   THEN /\ Cardinality(grants) = 1
                        /\ \A k \in grants :
                              /\ points[k].earnedById = t.userId
                              /\ points[k].amount = earned
                              /\ ~points[k].isUsed \/ points[k].usedById = t.userId
                   ELSE grants = {}
          /\ \A u \in DOMAIN users :
                users[u].pointsBalance
                   = SumGrants(InitialGrantsOf(u), 1)
                     - SumPointsUsed(TransactionsOf(u))
                     + SumGrants(PurchaseGrantsOf(u), 1)

\* C16, its case: a committed transaction whose finalAmount is not a
\* multiple of 1000 and earned points, and one that earned none
C16_Witness ==
    /\ NothingInProgress
    /\ \E t \in transactions :
          /\ t.finalAmount % 1000 >= 500
          /\ \E k \in 1..Len(points) : points[k].attempt = t.id
    /\ \E t \in transactions : t.finalAmount < 1000

\* C17: a booking for an event that does not exist or is not PUBLISHED fails
\* at the event lookup, and every table is as it was when the request
\* arrived.
C17_UnpublishedEventNotBookable ==
    [][\A p \in Procs :
          (/\ Steps(p)
           /\ bk[p].pc = "findEvent"
           /\ \/ bk[p].eventId \notin DOMAIN events
              \/ events[bk[p].eventId].status # "PUBLISHED")
          => /\ bk'[p].pc = "failed"
             /\ store' = bk[p].pre]_vars

\* C17, its case: after a committed booking, an attempt for an event that
\* is not published has failed
C17_Witness ==
    /\ transactions # {}
    /\ \E p \in Procs : /\ bk[p].pc = "failed"
                        /\ bk[p].outcome = "EventNotBookable"

(***************************************************************************)
(* Registration and login.                                                 *)
(***************************************************************************)
UsersWithEmail(table, email) ==
    {u \in DOMAIN table : table[u].email = email}

\* the password a user registered with
RegisteredPassword(u) ==
    IF u \in DOMAIN au.registered THEN au.registered[u] ELSE SeedPassword

\* the users whose referral code the request's code selects
ReferrersOf(table, code) ==
    {u \in DOMAIN table : table[u].referralCode = ToUpperCase(code)}

\* the request answered last created exactly one user, with its email
CreatedOneUser ==
    /\ au.userId \notin DOMAIN au.pre.users
    /\ DOMAIN users = DOMAIN au.pre.users \cup {au.userId}
    /\ users[au.userId].email = au.email

Answered(kind) == au.kind = kind /\ au.pc = "responded"

\* C18: at most one user exists per email; a register request with an unused
\* email (and no referral code, or one of a user) is answered 201 and has
\* created exactly one user; one with the email of a user is answered 400
\* 'User already exists' and leaves the users as they were.
C18_OneUserPerEmail ==
    /\ \A e \in Emails : Cardinality(UsersWithEmail(users, e)) <= 1
    /\ Answered("register") =>
          IF UsersWithEmail(au.pre.users, au.email) # {}
          THEN /\ au.status = 400
               /\ au.message = "User already exists"
               /\ users = au.pre.users
          ELSE IF au.referralCode # NoCode
                  /\ ReferrersOf(au.pre.users, au.referralCode) = {}
          THEN TRUE
          ELSE /\ au.status = 201
               /\ CreatedOneUser

\* C19: a login request is answered 200 if and only if a user has the given
\* email and registered with the given password, and 401 'Invalid
\* credentials' otherwise; it changes no stored row.
C19_LoginIffRegisteredPassword ==
    Answered("login") =>
       /\ au.status = 200
             <=> \E u \in UsersWithEmail(users, au.email) :
                    RegisteredPassword(u) = au.password
       /\ au.status # 200
             => au.status = 401 /\ au.message = "Invalid credentials"
       /\ <<users, coupons, points>>
             = <<au.pre.users, au.pre.coupons, au.pre.points>>

\* C20: a register request with an unused email and the referral code of a
\* user has created the new user, one unused grant of 10000 points of the
\* referrer with 10000 more on the referrer's balance, and exactly one unused
\* 10% coupon of the new user; one with a referral code of no user is
\* rejected and has created no user, grant or coupon.
C20_ReferralRewards ==
    (/\ Answered("register")
     /\ au.referralCode # NoCode
     /\ UsersWithEmail(au.pre.users, au.email) = {})
    => IF ReferrersOf(au.pre.users, au.referralCode) = {}
       THEN /\ au.status = 400
            /\ <<users, coupons, points>>
                  = <<au.pre.users, au.pre.coupons, au.pre.points>>
       ELSE /\ au.status = 201
            /\ CreatedOneUser
            /\ \E r \in ReferrersOf(au.pre.users, au.referralCode) :
                  /\ users[r].pointsBalance
                        = au.pre.users[r].pointsBalance + 10000
                  /\ \A u \in DOMAIN au.pre.users \ {r} :
                        users[u] = au.pre.users[u]
                  /\ Len(points) = Len(au.pre.points) + 1
                  /\ SubSeq(points, 1, Len(au.pre.points)) = au.pre.points
                  /\ points[Len(points)].earnedById = r
                  /\ points[Len(points)].amount = 10000
                  /\ ~points[Len(points)].isUsed
            /\ \E c \in DOMAIN coupons \ DOMAIN au.pre.coupons :
                  /\ DOMAIN coupons = DOMAIN au.pre.coupons \cup {c}
                  /\ coupons[c].userId = au.userId
                  /\ coupons[c].discountPercent = 10
                  /\ ~coupons[c].isUsed
            /\ \A c \in DOMAIN au.pre.coupons : coupons[c] = au.pre.coupons[c]

(***************************************************************************)
(* The amounts, line items and inventory of the committed transactions;    *)
(* the grants a booking or an expiry run consumes.                         *)
(***************************************************************************)
\* the line items of a transaction
ItemsOf(id) == {x \in transactionItems : x.transactionId = id}

\* the line items of committed transactions
CommittedItems ==
    {x \in transactionItems : \E t \in transactions : t.id = x.transactionId}

RECURSIVE SumTotalPrice(_)
\* the sum of totalPrice over a set of transactionItems rows
SumTotalPrice(S) ==
    IF S = {} THEN 0
    ELSE LET x == CHOOSE y \in S : TRUE
         IN x.totalPrice + SumTotalPrice(S \ {x})

RECURSIVE SumQuantity(_)
\* the sum of quantity over a set of transactionItems rows
SumQuantity(S) ==
    IF S = {} THEN 0
    ELSE LET x == CHOOSE y \in S : TRUE
         IN x.quantity + SumQuantity(S \ {x})

\* the counters of Init
InitialSold(t) == IF t = "t1" THEN 1 ELSE 0

InitialBookedSeats(e) == 1

\* the grants that are past their expiry time and not marked used
StaleGrants ==
    {k \in 1..Len(points) : points[k].expiresAt < now /\ ~points[k].isUsed}

\* the grants whose amount the expiry run in progress has deducted
DeductedByExpiry ==
    {cl.expiredPoints[j] : j \in {i \in 1..Len(cl.expiredPoints) : i < cl.i}}

\* the booking of process p commits
Commits(p) == bk[p].pc = "commit" /\ bk'[p].pc = "readBack"

\* C21: every Transaction persisted by a booking, after any sequence of
\* bookings, credits and expiry runs, has 0 <= discountAmount <= totalAmount
\* and 0 <= pointsUsed <= totalAmount - discountAmount.
C21_DiscountAndPointsWithinBounds ==
    \A t \in transactions :
       /\ 0 <= t.discountAmount /\ t.discountAmount <= t.totalAmount
       /\ 0 <= t.pointsUsed
       /\ t.pointsUsed <= t.totalAmount - t.discountAmount

\* C22: after any sequence of bookings executed one at a time, every ticket
\* has 0 <= sold <= quantity, a request that names one ticket in several
\* line items included.
C22_SerialSoldWithinQuantity ==
    \A t \in TicketIds :
       0 <= tickets[t].sold /\ tickets[t].sold <= tickets[t].quantity

\* the grants of user u a debit of `remaining` points marks: those, oldest
\* first from grant k, that are unused and unexpired and whose whole amount
\* is at most what remains when they are visited; the loop ends when
\* nothing remains (if (remainingPointsToUse <= 0) break)
RECURSIVE FifoMarks(_, _, _)
FifoMarks(u, k, remaining) ==
    IF k > Len(points) \/ remaining <= 0 THEN {}
    ELSE IF /\ points[k].earnedById = u
            /\ ~points[k].isUsed
            /\ points[k].expiresAt >= now
            /\ points[k].amount <= remaining
         THEN {k} \cup FifoMarks(u, k + 1, remaining - points[k].amount)
         ELSE FifoMarks(u, k + 1, remaining)

\* C23: the points debit of a booking that commits (pointsUsed > 0) marks
\* used, by the user, exactly the unused unexpired grants of the user whose
\* whole amount is at most the requirement that remains when they are
\* visited oldest first, and the amounts of the grants it marks sum to
\* pointsUsed at most; a booking without a debit marks no grant.
C23_DebitMarksFittingGrantsOldestFirst ==
    [][\A p \in Procs :
          Commits(p)
          => LET u == bk[p].user
                 t == CHOOSE x \in bk[p].insTransaction : TRUE
                 marked == {k \in 1..Len(points) :
                               points'[k].isUsed /\ ~points[k].isUsed}
             IN IF t.pointsUsed > 0
                THEN /\ marked = FifoMarks(u, 1, t.pointsUsed)
                     /\ \A k \in marked : points'[k].usedById = u
                     /\ SumGrants(marked, 1) <= t.pointsUsed
                ELSE marked = {}]_vars

\* C23, its case: a booking used 1000 points and marked the grants of 700 and
\* of 300, passing over the grant of 500 between them
C23_Witness ==
    /\ \E t \in transactions : t.pointsUsed = 1000
    /\ points[1].isUsed /\ points[1].usedById = "u1"
    /\ ~points[2].isUsed
    /\ points[3].isUsed /\ points[3].usedById = "u1"

\* C24: under any interleaving of a booking's points debit with an expiry
\* run, no grant whose amount the expiry run has deducted from its owner's
\* balance is a grant a booking consumed.
C24_NoGrantConsumedAndExpired ==
    \A k \in DeductedByExpiry : points[k].usedById = NoUser

\* C25: in every reachable state, between the steps of an expiry run
\* included, the grants the run has marked used are those whose amount it
\* has deducted from their owner's balance.
C25_ExpiryMarksWhatItDeducts ==
    cl.pc # "idle"
    => \A j \in 1..Len(cl.expiredPoints) :
          points[cl.expiredPoints[j]].isUsed <=> j < cl.i

\* C26: an expiry run leaves no stale grant, and an expiry run that starts
\* when there is no stale grant deducts nothing and marks nothing: a second
\* run right after a first changes no pointsBalance and no isUsed.
C26_ExpiryIdempotent ==
    [][/\ (cl.pc = "updateMany" /\ cl'.pc = "idle") => StaleGrants' = {}
       /\ (cl.pc = "idle" /\ cl'.pc # "idle" /\ StaleGrants = {})
          => (cl'.pc = "updateMany" /\ cl'.expiredPoints = <<>>)
       /\ (cl.pc = "updateMany" /\ cl.expiredPoints = <<>> /\ StaleGrants = {})
          => (users' = users /\ points' = points)]_vars

\* C26, its case: a run that found no stale grant, after a run that marked
\* an expired grant
C26_Witness ==
    /\ cl.pc = "updateMany"
    /\ cl.expiredPoints = <<>>
    /\ \E k \in 1..Len(points) :
          /\ points[k].isUsed
          /\ points[k].usedById = NoUser
          /\ points[k].expiresAt < now

\* the statement process p awaits waits for a row lock that p's own
\* transaction holds
WaitsOnOwnLock(p) ==
    /\ bk[p].pc = "awardUpdate"
    /\ bk[p].open
    /\ bk[p].user \in bk[p].locks.users

\* C27: every booking attempt eventually ends, persisted or failed, and
\* never waits for a lock it holds itself, the attempts that both debit and
\* earn points included.
C27_BookingEndsWithoutSelfWait ==
    \A p \in Procs :
       /\ Active(p) ~> EndedProc(p)
       /\ [](~WaitsOnOwnLock(p))

\* a committed transaction and its line items: every item is of a
\* transaction, the items of a transaction are one per line, each with the
\* ticket's price and totalPrice = unitPrice * quantity, and they sum to
\* totalAmount
TransactionsHaveTheirItems ==
    /\ \A x \in transactionItems :
          \E t \in transactions : t.id = x.transactionId
    /\ \A t \in transactions :
          LET I == ItemsOf(t.id) IN
          /\ \A x \in I : x.line \in 1..Cardinality(I)
          /\ \A x \in I : /\ x.unitPrice = tickets[x.ticketId].price
                          /\ x.totalPrice = x.unitPrice * x.quantity
          /\ t.totalAmount = SumTotalPrice(I)

\* C28: in every state a committed Transaction exists together with one
\* TransactionItem per line item of its request, each with the ticket's
\* price and totalPrice = unitPrice * quantity, and totalAmount is the sum
\* of the items' totalPrice.
C28_TransactionWithItsItems ==
    [][/\ \A p \in Procs :
             (bk[p].pc = "updateTicket" /\ bk'[p].pc = "updateEvent")
             => /\ Cardinality(bk'[p].insItems) = Len(bk[p].items)
                /\ \A i \in 1..Len(bk[p].items) :
                      \E x \in bk'[p].insItems :
                         /\ x.line = i
                         /\ x.ticketId = bk[p].items[i].ticketId
                         /\ x.quantity = bk[p].items[i].quantity
       /\ \A p \in Procs :
             Commits(p)
             => \A t \in bk[p].insTransaction :
                   /\ t \in transactions'
                   /\ ItemsOf(t.id)' = bk[p].insItems
       /\ TransactionsHaveTheirItems']_vars

\* C28, its case: a committed transaction with two line items of one ticket
C28_Witness ==
    \E t \in transactions :
       /\ Cardinality(ItemsOf(t.id)) = 2
       /\ \A x \in ItemsOf(t.id) : x.ticketId = "t1"
       /\ t.totalAmount = 4000

\* C29: under any interleaving of bookings, each ticket's sold less its
\* initial value is the sum of the quantities of the committed line items
\* of the ticket, and each event's bookedSeats less its initial value is
\* that sum over the tickets of the event.
C29_InventoryConserved ==
    /\ \A t \in TicketIds :
          tickets[t].sold - InitialSold(t)
             = SumQuantity({x \in CommittedItems : x.ticketId = t})
    /\ \A e \in EventIds :
          events[e].bookedSeats - InitialBookedSeats(e)
             = SumQuantity({x \in CommittedItems :
                               tickets[x.ticketId].eventId = e})

\* C29, its case: two bookings committed, one of them with two line items
C29_Witness ==
    /\ Cardinality(transactions) = 2
    /\ \E t \in transactions : Cardinality(ItemsOf(t.id)) = 2

\* sold <= quantity for every ticket and bookedSeats <= availableSeats for
\* every event
CapacityKept ==
    /\ \A t \in DOMAIN tickets : tickets[t].sold <= tickets[t].quantity
    /\ \A e \in DOMAIN events :
          events[e].bookedSeats <= events[e].availableSeats

\* C30: after any sequence of bookings, ticket updates and event updates,
\* sold <= quantity and bookedSeats <= availableSeats: an update of the
\* organizer does not lower a capacity below what is sold or booked.
C30_UpdatesPreserveCapacity ==
    [][(og' # og /\ CapacityKept) => CapacityKept']_vars

====
